---- MODULE Spec2Model ----
(***************************************************************************)
(* A model of dxrs, a command-line client of an object store.              *)
(*                                                                         *)
(*   UploadSpec  upload_local_file (src/src/lib.rs) and the platform calls *)
(*               it issues: file_new, file_upload, file_upload_part,       *)
(*               file_close (src/src/api.rs).                              *)
(*   SearchSpec  the paginated searches find_data, find_apps and           *)
(*               find_projects (src/src/api.rs).                           *)
(*                                                                         *)
(* Byte strings are kept run-length encoded, so that a source longer than  *)
(* one 4 MiB chunk is a short sequence of runs: <<[b |-> 1, n |-> 3]>> is  *)
(* the three bytes 1 1 1.  A byte string is always in normal form (no      *)
(* empty run, no two neighbouring runs of the same byte), so two byte      *)
(* strings are equal exactly when their encodings are.                     *)
(***************************************************************************)
EXTENDS Integers, Sequences, FiniteSets, TLC

VARIABLES
    \* ---- upload_local_file ----
    src_exists,     \* whether fs::metadata(filename) finds the source
    file,           \* the bytes of the local source
    u_pc,           \* the position reached in upload_local_file
    buffer,         \* `buffer`: the Vec<u8> the chunks are read into
    fpos,           \* the read position of `fh`
    index,          \* the loop variable of `for index in 1..`
    bytes_read,     \* `bytes_read` of the current iteration
    upload_opts,    \* `upload_opts` of the current iteration
    calls,          \* the platform calls issued so far, in order
    u_result,       \* what upload_local_file returned
    \* ---- find_data / find_apps / find_projects ----
    search_fn,      \* which of the three searches runs
    remote,         \* the platform's pages: remote[i] is the result list of page i
    s_pc,           \* the position reached in the search
    options,        \* `options`: the criteria the search posts
    caller_options, \* the criteria value the caller holds
    apps,           \* `apps` / `projects`: the results accumulated so far
    requests,       \* the page requests posted so far, in order
    responses,      \* the responses received so far, in order
    s_result,       \* what the search returned
    s_run,          \* 1 in the caller's first call of the search, 2 in its second
    first_result,   \* what the first call returned, once a second one runs
    given_options,  \* the options the caller passed to the running call
    \* ---- resolve_path / is_file_or_path / parse_project_path ----
    p_c,            \* dx_env.project_context_id
    p_w,            \* dx_env.cli_wd
    p_input,        \* the string the user gave
    p_fn,           \* which of the functions was applied ("none" before)
    p_out,          \* what it returned
    \* ---- api::download_file ----
    d_response,     \* what the transport answers: status, content length, body
    d_quiet,        \* the quiet flag
    d_pc,           \* where download_file is
    total_size,     \* the content length taken from the response
    progress,       \* the progress bar, if any: its length and position
    downloaded,     \* the local counter of bytes
    d_rest,         \* the part of the body the stream has not delivered yet
    d_chunks,       \* how many chunks the stream delivered
    d_sink,         \* the bytes the sink holds
    d_result,       \* what download_file returned
    \* ---- the download commands: dxrs download, dxrs-download-all-inputs ----
    c_cmd,          \* which command runs
    c_parallel,     \* the parallel flag of dxrs-download-all-inputs
    c_outcomes,     \* how the transfer of each requested file ends
    c_results,      \* what the transfer of each file returned ("pending" before)
    c_stderr,       \* the lines written to standard error
    c_pc,           \* where the command is
    c_run,          \* what run returned to main
    c_exit,         \* the exit code of the process (NoExit while it runs)
    \* ---- normalize ----
    n_val,          \* the value given to normalize
    n_pc,           \* "start" before the call, "done" after it
    n_out,          \* what normalize returned
    \* ---- upload_local_file: the options of file_new ----
    o_filename,     \* the local source, as the components of its path
    o_destination,  \* destination: project_id and the components of path
    o_pc,           \* "start" before new_opts is built, "done" after
    new_opts,       \* FileNewOptions: project, name, folder, parents
    \* ---- rmdir ----
    r_paths,        \* args.paths
    r_left,         \* per path, the requests the platform needs to empty it
    r_index,        \* the position of `for path in &args.paths`
    r_options,      \* RmdirOptions of the current path
    r_pc,           \* where rmdir is
    r_requests,     \* the removeFolder requests sent, with the path's position
    r_responses,    \* the answers to them
    r_result,       \* what rmdir returned
    \* ---- download_file (lib.rs) ----
    f_force,        \* args.force
    f_output,       \* args.output: "none", "-" or "name"
    f_existed,      \* whether the local target existed when the call began
    f_local,        \* the local target: "absent", or what it holds
    f_pc,           \* where download_file is
    f_calls,        \* the platform calls, opens and fetches made, in order
    f_result,       \* what download_file returned
    \* ---- rm_project ----
    m_force,        \* args.force
    m_matches,      \* per argument, how many projects the search finds
    m_index,        \* the position of `for project in args.projects`
    m_found,        \* per argument taken, num_found
    m_confirm,      \* per argument taken, the value of confirm ("none" if
                    \* it was not computed)
    m_destroys,     \* the positions of the arguments a destroy call was
                    \* issued for, in order
    m_pc,           \* where rm_project is
    m_result        \* what rm_project returned

uvars == <<src_exists, file, u_pc, buffer, fpos, index, bytes_read,
           upload_opts, calls, u_result>>
svars == <<search_fn, remote, s_pc, options, caller_options, apps, requests,
           responses, s_result, s_run, first_result,
           given_options>>
pvars == <<p_c, p_w, p_input, p_fn, p_out>>
dvars == <<d_response, d_quiet, d_pc, total_size, progress, downloaded,
           d_rest, d_chunks, d_sink, d_result>>
cvars == <<c_cmd, c_parallel, c_outcomes, c_results, c_stderr, c_pc, c_run,
           c_exit>>
nvars == <<n_val, n_pc, n_out>>
ovars == <<o_filename, o_destination, o_pc, new_opts>>
rvars == <<r_paths, r_left, r_index, r_options, r_pc, r_requests,
           r_responses, r_result>>
fvars == <<f_force, f_output, f_existed, f_local, f_pc, f_calls, f_result>>
mvars == <<m_force, m_matches, m_index, m_found, m_confirm, m_destroys, m_pc,
           m_result>>
vars == <<uvars, svars, pvars, dvars, cvars, nvars, ovars, rvars, fvars, mvars>>

\* What an action of one component leaves alone.
notUpload == <<svars, pvars, dvars, cvars, nvars, ovars, rvars, fvars, mvars>>
notSearch == <<uvars, pvars, dvars, cvars, nvars, ovars, rvars, fvars, mvars>>
notPath == <<uvars, svars, dvars, cvars, nvars, ovars, rvars, fvars, mvars>>
notDownload == <<uvars, svars, pvars, cvars, nvars, ovars, rvars, fvars, mvars>>
notCmd == <<uvars, svars, pvars, dvars, nvars, ovars, rvars, fvars, mvars>>
notNormalize == <<uvars, svars, pvars, dvars, cvars, ovars, rvars, fvars, mvars>>
notNewOpts == <<uvars, svars, pvars, dvars, cvars, nvars, rvars, fvars, mvars>>
notRmdir == <<uvars, svars, pvars, dvars, cvars, nvars, ovars, fvars, mvars>>
notFetch == <<uvars, svars, pvars, dvars, cvars, nvars, ovars, rvars, mvars>>
notRmProject == <<uvars, svars, pvars, dvars, cvars, nvars, ovars, rvars, fvars>>

\* What a path function returns: a DxPath, a FileOrPath or a ProjectPath.
PathResult(kind, project_id, path) ==
    [kind |-> kind, project_id |-> project_id, path |-> path]

\* No path function is in use.
NoPathResult == PathResult("none", <<>>, <<>>)

PathIdle ==
    /\ p_c = <<>>
    /\ p_w = <<>>
    /\ p_input = <<>>
    /\ p_fn = "idle"
    /\ p_out = NoPathResult

\* What download_file returns.
DOk == [kind |-> "Ok", error |-> ""]
DErr(e) == [kind |-> "Err", error |-> e]
DNoResult == [kind |-> "none", error |-> ""]

\* The progress bar: None, or Some(pb) with pb's length and position.
NoProgress == [some |-> FALSE, length |-> 0, position |-> 0]
ProgressBar(len) == [some |-> TRUE, length |-> len, position |-> 0]

\* No download is in progress.
DownloadIdle ==
    /\ d_response = [status |-> "none",
                     content_length |-> [some |-> FALSE, v |-> 0],
                     body |-> <<>>]
    /\ d_quiet = TRUE
    /\ d_pc = "idle"
    /\ total_size = 0
    /\ progress = NoProgress
    /\ downloaded = 0
    /\ d_rest = <<>>
    /\ d_chunks = 0
    /\ d_sink = <<>>
    /\ d_result = DNoResult

\* ------------------------------------------------------------------------
\* Bounds of the model
\* ------------------------------------------------------------------------

\* The process has not exited.
NoExit == 0 - 1

\* No download command runs.
CmdIdle ==
    /\ c_cmd = "none"
    /\ c_parallel = FALSE
    /\ c_outcomes = <<>>
    /\ c_results = <<>>
    /\ c_stderr = <<>>
    /\ c_pc = "idle"
    /\ c_run = "none"
    /\ c_exit = NoExit

\* A download command is asked for at most MaxFiles files.
MaxFiles == 2

\* What normalize returns.
NOk(v) == [kind |-> "Ok", value |-> v]
NErr(v) == [kind |-> "Err", value |-> v]
NNoResult == [kind |-> "none", value |-> <<>>]

\* normalize is not in use.
NormalizeIdle ==
    /\ n_val = <<>>
    /\ n_pc = "idle"
    /\ n_out = NNoResult

\* A value given to normalize has at most MaxName characters.
MaxName == 3

\* No FileNewOptions are being built.
NewOptsIdle ==
    /\ o_filename = <<>>
    /\ o_destination = [project_id |-> "", path |-> <<>>]
    /\ o_pc = "idle"
    /\ new_opts = [project |-> "", name |-> "", folder |-> <<>>,
                   parents |-> FALSE]

\* A destination folder has at most MaxDepth components.
MaxDepth == 2

\* RmdirOptions before a path is taken.
NoRmdirOptions == [folder |-> "", recurse |-> FALSE, partial |-> FALSE]

\* rmdir does not run.
RmdirIdle ==
    /\ r_paths = <<>>
    /\ r_left = <<>>
    /\ r_index = 0
    /\ r_options = NoRmdirOptions
    /\ r_pc = "idle"
    /\ r_requests = <<>>
    /\ r_responses = <<>>
    /\ r_result = "none"

\* rmdir is given at most MaxFolders paths, and the platform empties a
\* folder in at most MaxRounds requests.
MaxFolders == 2
MaxRounds == 2

\* download_file (lib.rs) does not run.
FetchIdle ==
    /\ f_force = FALSE
    /\ f_output = "none"
    /\ f_existed = FALSE
    /\ f_local = "absent"
    /\ f_pc = "idle"
    /\ f_calls = <<>>
    /\ f_result = "none"

\* rm_project does not run.
RmProjectIdle ==
    /\ m_force = FALSE
    /\ m_matches = <<>>
    /\ m_index = 0
    /\ m_found = <<>>
    /\ m_confirm = <<>>
    /\ m_destroys = <<>>
    /\ m_pc = "idle"
    /\ m_result = "none"

\* rm_project is given at most MaxProjects arguments.
MaxProjects == 2

\* A response body has at most MaxBody bytes.
MaxBody == 3

\* An input of the path functions is made of at most MaxParts pieces.
MaxParts == 4

\* The longest source has MaxRuns runs of equal bytes.
MaxRuns == 3

\* The platform holds at most MaxPages pages of at most MaxPageLen results.
MaxPages == 3
MaxPageLen == 2

\* ------------------------------------------------------------------------
\* Byte strings
\* ------------------------------------------------------------------------

Byte == {0, 1}

Min(a, b) == IF a <= b THEN a ELSE b

Run(b, n) == [b |-> b, n |-> n]

\* The number of bytes of a byte string: slice.len(), Vec::len().
RECURSIVE BLen(_)
BLen(s) == IF s = <<>> THEN 0 ELSE Head(s).n + BLen(Tail(s))

\* s followed by t.
BCat(s, t) ==
    IF s = <<>> THEN t
    ELSE IF t = <<>> THEN s
    ELSE IF s[Len(s)].b = t[1].b
         THEN SubSeq(s, 1, Len(s) - 1)
              \o <<Run(t[1].b, s[Len(s)].n + t[1].n)>>
              \o Tail(t)
         ELSE s \o t

\* The first k bytes of s: &s[..k].
RECURSIVE BTake(_, _)
BTake(s, k) ==
    IF k = 0 \/ s = <<>> THEN <<>>
    ELSE IF Head(s).n <= k
         THEN BCat(<<Head(s)>>, BTake(Tail(s), k - Head(s).n))
         ELSE <<Run(Head(s).b, k)>>

\* s without its first k bytes: &s[k..].
RECURSIVE BDrop(_, _)
BDrop(s, k) ==
    IF k = 0 \/ s = <<>> THEN s
    ELSE IF Head(s).n <= k
         THEN BDrop(Tail(s), k - Head(s).n)
         ELSE <<Run(Head(s).b, Head(s).n - k)>> \o Tail(s)

\* vec![0; n]
Zeros(n) == IF n = 0 THEN <<>> ELSE <<Run(0, n)>>

\* md5::compute(bytes) formatted as hexadecimal: a digest that depends on
\* every byte of the content and on nothing else (the 128 bits of the value
\* are not modelled).
DigestModulus == 65521
RECURSIVE Md5From(_, _)
Md5From(h, s) ==
    IF s = <<>> THEN h
    ELSE Md5From((h * 131 + (Head(s).b + 1) * 7919 + Head(s).n) % DigestModulus,
                 Tail(s))
Md5(bytes) == Md5From(1, bytes)

\* ------------------------------------------------------------------------
\* upload_local_file
\* ------------------------------------------------------------------------

\* const MD5_READ_CHUNK_SIZE: usize = 1024 * 1024 * 4;
MD5_READ_CHUNK_SIZE == 1024 * 1024 * 4

\* The lengths of the runs a source is made of: around one chunk.
RunLens == {1, MD5_READ_CHUNK_SIZE - 1, MD5_READ_CHUNK_SIZE,
            MD5_READ_CHUNK_SIZE + 1}

\* The local sources: every byte string of at most MaxRuns runs.
Sources ==
    UNION {{s \in [1..k -> [b : Byte, n : RunLens]] :
               \A i \in 1..(k - 1) : s[i].b # s[i + 1].b} : k \in 0..MaxRuns}

NoOpts == [size |-> 0, md5 |-> 0, index |-> 0]
NoResult == [kind |-> "none", value |-> ""]
Ok(v) == [kind |-> "Ok", value |-> v]
Err(e) == [kind |-> "Err", value |-> e]

\* The object id file_new answers with.
NewFileId == "file-1"

Call(op, opts, data, ok) ==
    [op |-> op, index |-> opts.index, size |-> opts.size, md5 |-> opts.md5,
     data |-> data, ok |-> ok]

UploadIdle ==
    /\ src_exists = FALSE
    /\ file = <<>>
    /\ u_pc = "idle"
    /\ buffer = <<>>
    /\ fpos = 0
    /\ index = 0
    /\ bytes_read = 0
    /\ upload_opts = NoOpts
    /\ calls = <<>>
    /\ u_result = NoResult

UploadInit ==
    /\ src_exists \in BOOLEAN
    /\ file \in (IF src_exists THEN Sources ELSE {<<>>})
    /\ u_pc = "metadata"
    /\ buffer = <<>>
    /\ fpos = 0
    /\ index = 0
    /\ bytes_read = 0
    /\ upload_opts = NoOpts
    /\ calls = <<>>
    /\ u_result = NoResult

\* `?` and bail!: the function returns the error from where it stands.
Return(r) ==
    /\ u_result' = r
    /\ u_pc' = "done"

\* A mutant of IsEmptySource: the check for the empty source never fires.
IsEmptySourceNever(len) == len < 0

\* metadata.len() == 0
IsEmptySource(len) == len = 0

\* let metadata = fs::metadata(filename)?;
\* if metadata.len() == 0 { bail!(r#"File "{filename}" is empty"#); }
CheckMetadata ==
    /\ u_pc = "metadata"
    /\ IF ~src_exists THEN Return(Err("io"))
       ELSE IF IsEmptySource(BLen(file)) THEN Return(Err("empty"))
       ELSE u_pc' = "file_new" /\ UNCHANGED u_result
    /\ UNCHANGED <<src_exists, file, buffer, fpos, index, bytes_read,
                   upload_opts, calls>>
    /\ UNCHANGED notUpload

\* let new_file = api::file_new(dx_env, &new_opts)?;
\* let mut buffer = vec![0; MD5_READ_CHUNK_SIZE];
FileNew ==
    /\ u_pc = "file_new"
    /\ \E ok \in BOOLEAN :
        /\ calls' = Append(calls, Call("file_new", NoOpts, <<>>, ok))
        /\ IF ok
           THEN /\ buffer' = Zeros(MD5_READ_CHUNK_SIZE)
                /\ u_pc' = "open"
                /\ UNCHANGED u_result
           ELSE /\ Return(Err("platform"))
                /\ UNCHANGED buffer
    /\ UNCHANGED <<src_exists, file, fpos, index, bytes_read, upload_opts>>
    /\ UNCHANGED notUpload

\* The first value of `for index in 1..`.
FirstIndex == 1

\* A mutant of NextIndex: the index skips a value.
NextIndexSkips(i) == i + 2

\* The next value of `for index in 1..`.
NextIndex(i) == i + 1

\* let mut fh = BufReader::new(File::open(filename)?);
\* for index in 1.. {
OpenSource ==
    /\ u_pc = "open"
    /\ \E ok \in BOOLEAN :
        IF ok
        THEN /\ fpos' = 0
             /\ index' = FirstIndex
             /\ u_pc' = "read"
             /\ UNCHANGED u_result
        ELSE /\ Return(Err("io"))
             /\ UNCHANGED <<fpos, index>>
    /\ UNCHANGED <<src_exists, file, buffer, bytes_read, upload_opts, calls>>
    /\ UNCHANGED notUpload

\* fh.read(&mut buffer) on a regular file: `&mut buffer` is the slice of the
\* vector's current length, and the read fills it as far as the source goes.
ReadLen(buf, remaining) == Min(BLen(buf), remaining)

\* The buffer after n bytes of the source at position pos were read into it.
ReadInto(buf, pos, n) == BCat(BTake(BDrop(file, pos), n), BDrop(buf, n))

\* A mutant of LoopEnds: a read of zero bytes does not end the loop.
LoopEndsNever(n) == n < 0

\* if bytes_read == 0 { break; }
LoopEnds(n) == n = 0

\* let bytes = &buffer[..bytes_read];
ChunkBytes(buf, n) == BTake(buf, n)

\* FileUploadOptions { size: bytes_read,
\*                     md5: format!("{:x}", md5::compute(bytes)), index }
UploadOpts(bytes, n, i) == [size |-> n, md5 |-> Md5(bytes), index |-> i]

\* let bytes_read = fh.read(&mut buffer)?;
\* if bytes_read == 0 { break; }
\* let bytes = &buffer[..bytes_read];
\* let upload_opts = FileUploadOptions { ... };
ReadChunk ==
    /\ u_pc = "read"
    /\ \E ok \in BOOLEAN :
        IF ok
        THEN LET n == ReadLen(buffer, BLen(file) - fpos)
                 buf == ReadInto(buffer, fpos, n)
             IN  /\ bytes_read' = n
                 /\ buffer' = buf
                 /\ fpos' = fpos + n
                 /\ IF LoopEnds(n)
                    THEN u_pc' = "file_close" /\ UNCHANGED upload_opts
                    ELSE /\ u_pc' = "file_upload"
                         /\ upload_opts' =
                                UploadOpts(ChunkBytes(buf, n), n, index)
                 /\ UNCHANGED u_result
        ELSE /\ Return(Err("io"))
             /\ UNCHANGED <<bytes_read, buffer, fpos, upload_opts>>
    /\ UNCHANGED <<src_exists, file, index, calls>>
    /\ UNCHANGED notUpload

\* let upload = api::file_upload(dx_env, &new_file.id, &upload_opts)?;
FileUpload ==
    /\ u_pc = "file_upload"
    /\ \E ok \in BOOLEAN :
        /\ calls' = Append(calls, Call("file_upload", upload_opts, <<>>, ok))
        /\ IF ok
           THEN u_pc' = "file_upload_part" /\ UNCHANGED u_result
           ELSE Return(Err("platform"))
    /\ UNCHANGED <<src_exists, file, buffer, fpos, index, bytes_read,
                   upload_opts>>
    /\ UNCHANGED notUpload

\* A mutant of PartPayload: the whole buffer is transmitted, not the bytes read.
PartPayloadWholeBuffer(buf, n) == buf

\* bytes.to_vec()
PartPayload(buf, n) == ChunkBytes(buf, n)

\* buffer.clear();
Cleared(buf) == <<>>

\* api::file_upload_part(upload, bytes.to_vec())?;
\* buffer.clear();
\* }   (the next value of index)
FileUploadPart ==
    /\ u_pc = "file_upload_part"
    /\ \E ok \in BOOLEAN :
        /\ calls' = Append(calls, Call("file_upload_part", upload_opts,
                                       PartPayload(buffer, bytes_read), ok))
        /\ IF ok
           THEN /\ buffer' = Cleared(buffer)
                /\ index' = NextIndex(index)
                /\ u_pc' = "read"
                /\ UNCHANGED u_result
           ELSE /\ Return(Err("platform"))
                /\ UNCHANGED <<buffer, index>>
    /\ UNCHANGED <<src_exists, file, fpos, bytes_read, upload_opts>>
    /\ UNCHANGED notUpload

\* A mutant of FileClose: the function returns the id without the close call.
FileCloseSkipped ==
    /\ u_pc = "file_close"
    /\ Return(Ok(NewFileId))
    /\ UNCHANGED <<src_exists, file, buffer, fpos, index, bytes_read,
                   upload_opts, calls>>
    /\ UNCHANGED notUpload

\* api::file_close(dx_env, &new_file.id, &close_opts)?;
\* Ok(new_file.id.to_string())
FileClose ==
    /\ u_pc = "file_close"
    /\ \E ok \in BOOLEAN :
        /\ calls' = Append(calls, Call("file_close", NoOpts, <<>>, ok))
        /\ Return(IF ok THEN Ok(NewFileId) ELSE Err("platform"))
    /\ UNCHANGED <<src_exists, file, buffer, fpos, index, bytes_read,
                   upload_opts>>
    /\ UNCHANGED notUpload

\* ------------------------------------------------------------------------
\* find_data, find_apps, find_projects
\* ------------------------------------------------------------------------

Items == {"A", "B", "C"}

\* Option<T>: None, Some(v).
None == [some |-> FALSE, v |-> 0]
Some(v) == [some |-> TRUE, v |-> v]

RECURSIVE Flatten(_)
Flatten(ps) == IF ps = <<>> THEN <<>> ELSE Head(ps) \o Flatten(Tail(ps))

Range(s) == {s[i] : i \in 1..Len(s)}

NoRepeat(s) == Cardinality(Range(s)) = Len(s)

\* The result lists a page can carry, the empty one among them.
PageLists ==
    {s \in UNION {[1..k -> Items] : k \in 0..MaxPageLen} : NoRepeat(s)}

\* The states of the platform: what a search matches, cut into pages.
Remotes ==
    {r \in UNION {[1..k -> PageLists] : k \in 1..MaxPages} :
        NoRepeat(Flatten(r))}

SearchFns == {"find_data", "find_apps", "find_projects"}

\* find_data and find_apps take `options: &mut ...`, the caller's value;
\* find_projects takes `mut options: FindProjectsOptions`, a value of its own.
BorrowsOptions(fn) == fn \in {"find_data", "find_apps"}

\* The outcomes of one page request other than a decoded 200 response:
\* req.send().await? or res.text().await? fails; the status is not OK;
\* serde_json::from_str(text)? / res.json().await? fails.
Failures == {"transport", "status", "decode"}

SOk(v) == [kind |-> "Ok", value |-> v, error |-> ""]
SErr(e) == [kind |-> "Err", value |-> <<>>, error |-> e]
SNoResult == [kind |-> "none", value |-> <<>>, error |-> ""]

\* The platform's answer to a request that starts at cursor `starting`: the
\* page the cursor names (the first page without one), and the cursor of the
\* page after it when there is one.
PageOf(starting) == IF starting.some THEN starting.v ELSE 1
PlatformPage(starting) ==
    LET i == PageOf(starting)
    IN  [outcome |-> "ok",
         results |-> remote[i],
         next |-> IF i < Len(remote) THEN Some(i + 1) ELSE None]
FailedPage(f) == [outcome |-> f, results |-> <<>>, next |-> None]

\* The fields of the options other than starting (class, name, scope, ...),
\* as one value.
Criteria == {"file", "applet"}

SearchIdle ==
    /\ search_fn = "none"
    /\ remote = <<>>
    /\ s_pc = "idle"
    /\ options = [criteria |-> "none", starting |-> None]
    /\ caller_options = options
    /\ given_options = options
    /\ apps = <<>>
    /\ requests = <<>>
    /\ responses = <<>>
    /\ s_result = SNoResult
    /\ s_run = 1
    /\ first_result = SNoResult

\* let mut apps: Vec<FindDataResult> = vec![];   (every caller builds the
\* options with `starting: None`)
SearchInit ==
    /\ search_fn \in SearchFns
    /\ remote \in Remotes
    /\ s_pc = "loop"
    /\ \E c \in Criteria : options = [criteria |-> c, starting |-> None]
    /\ caller_options = options
    /\ given_options = options
    /\ apps = <<>>
    /\ requests = <<>>
    /\ responses = <<>>
    /\ s_result = SNoResult
    /\ s_run = 1
    /\ first_result = SNoResult

\* A mutant of Accumulate: a page is put in front of the earlier ones.
AccumulateInFront(acc, data) == data \o acc

\* if !data.is_empty() { apps.append(&mut data); }
Accumulate(acc, data) == IF data # <<>> THEN acc \o data ELSE acc

\* A mutant of HasNext: an empty page ends the search whatever its cursor.
HasNextAndResults(response) == response.next.some /\ response.results # <<>>

\* if response.next.is_some() { ... } else { break; }
HasNext(response) == response.next.some

\* A mutant of WithStarting: the next options hold the cursor and nothing
\* of the criteria.
WithStartingAlone(opts, response) ==
    [criteria |-> "none", starting |-> response.next]

\* A mutant of WithStarting: the cursor of the page is not taken over.
WithStartingKept(opts, response) == opts

\* options.starting = response.next.clone()
WithStarting(opts, response) == [opts EXCEPT !.starting = response.next]

\* A mutant of SearchFailure: a failed page ends the loop with what was found.
SearchFailurePartial(acc, f) == SOk(acc)

\* The `_ =>` arm and the `?` of the loop: bail with the error.
SearchFailure(acc, f) == SErr(f)

\* Ok(apps)
SearchSuccess(acc) == SOk(acc)

\* One round of `loop { ... }`: post the options, then match on the response.
FindPage ==
    /\ s_pc = "loop"
    /\ PageOf(options.starting) \in 1..Len(remote)
    /\ Len(requests) <= MaxPages
    /\ requests' = Append(requests, options)
    /\ \E outcome \in {"ok"} \cup Failures :
        LET response == IF outcome = "ok" THEN PlatformPage(options.starting)
                        ELSE FailedPage(outcome)
        IN  /\ responses' = Append(responses, response)
            /\ IF outcome = "ok"
               THEN LET acc == Accumulate(apps, response.results)
                    IN  /\ apps' = acc
                        /\ IF HasNext(response)
                           THEN /\ options' = WithStarting(options, response)
                                /\ UNCHANGED <<s_pc, s_result>>
                           ELSE /\ s_pc' = "done"
                                /\ s_result' = SearchSuccess(acc)
                                /\ UNCHANGED options
               ELSE /\ s_pc' = "done"
                    /\ s_result' = SearchFailure(apps, outcome)
                    /\ UNCHANGED <<apps, options>>
    /\ caller_options' =
           IF BorrowsOptions(search_fn) THEN options' ELSE caller_options
    /\ UNCHANGED <<search_fn, remote, s_run, first_result, given_options>>
    /\ UNCHANGED notSearch

SearchNext == FindPage

\* The search runs; no upload does.
SearchStart ==
    /\ SearchInit
    /\ UploadIdle
    /\ PathIdle
    /\ DownloadIdle
    /\ CmdIdle
    /\ NormalizeIdle
    /\ NewOptsIdle
    /\ RmdirIdle
    /\ FetchIdle
    /\ RmProjectIdle

SearchSpec == SearchStart /\ [][SearchNext]_vars

\* The search under its scheduler: the runtime polls the future of the
\* search until it returns, so a round that can run does run.
SearchLiveSpec == SearchStart /\ [][SearchNext]_vars /\ WF_vars(FindPage)

\* The caller calls the search a second time with the criteria value it
\* holds after the first call: the value find_data and find_apps were lent
\* (`options: &mut ...`), or for find_projects, which consumes its argument,
\* a copy of the value as the caller built it.
SearchAgain ==
    /\ s_pc = "done"
    /\ s_run = 1
    /\ s_result.kind = "Ok"
    /\ s_run' = 2
    /\ first_result' = s_result
    /\ options' = caller_options
    /\ given_options' = caller_options
    /\ apps' = <<>>
    /\ requests' = <<>>
    /\ responses' = <<>>
    /\ s_result' = SNoResult
    /\ s_pc' = "loop"
    /\ UNCHANGED <<search_fn, remote, caller_options>>
    /\ UNCHANGED notSearch

RerunNext ==
    \/ FindPage
    \/ SearchAgain

\* A search, and a second call of it by the same caller.
RerunSpec == SearchStart /\ [][RerunNext]_vars

UploadNext ==
    \/ CheckMetadata
    \/ FileNew
    \/ OpenSource
    \/ ReadChunk
    \/ FileUpload
    \/ FileUploadPart
    \/ FileClose

\* The upload runs; no search does.
UploadStart ==
    /\ UploadInit
    /\ SearchIdle
    /\ PathIdle
    /\ DownloadIdle
    /\ CmdIdle
    /\ NormalizeIdle
    /\ NewOptsIdle
    /\ RmdirIdle
    /\ FetchIdle
    /\ RmProjectIdle

UploadSpec == UploadStart /\ [][UploadNext]_vars

\* ------------------------------------------------------------------------
\* resolve_path, is_file_or_path, parse_project_path
\* ------------------------------------------------------------------------
\* A string is the sequence of its characters.

\* The characters of the model that [A-Za-z0-9] matches.
Alnum == {"A", "B", "C", "x", "w", "p", "r", "o", "j", "e", "c", "t", "f",
          "i", "l"}

\* {24}
IdLen == 24

ProjectTag == <<"p", "r", "o", "j", "e", "c", "t", "-">>
FileTag == <<"f", "i", "l", "e", "-">>

Rep(c, n) == [i \in 1..n |-> c]

\* s.starts_with('/'); on Unix also Path::new(s).is_absolute()
StartsWithSlash(s) == s # <<>> /\ s[1] = "/"

\* tag followed by exactly IdLen characters of [A-Za-z0-9] starts s.
IdAtStart(s, tag) ==
    /\ Len(s) >= Len(tag) + IdLen
    /\ SubSeq(s, 1, Len(tag)) = tag
    /\ \A i \in 1..IdLen : s[Len(tag) + i] \in Alnum

\* The longest prefix `.*` matches: `.` matches every character but "\n".
DotStar(s) ==
    IF \E i \in 1..Len(s) : s[i] = "\n"
    THEN SubSeq(s, 1, (CHOOSE i \in 1..Len(s) :
                          /\ s[i] = "\n"
                          /\ \A j \in 1..(i - 1) : s[j] # "\n") - 1)
    ELSE s

NoneStr == [some |-> FALSE, v |-> <<>>]
SomeStr(s) == [some |-> TRUE, v |-> s]

\* A mutant of ProjectCaptures: the ':' after the identifier is required.
ProjectCapturesColonRequired(s) ==
    LET n == Len(ProjectTag) + IdLen
    IN  IF IdAtStart(s, ProjectTag) /\ Len(s) > n /\ s[n + 1] = ":"
        THEN [matched |-> TRUE, g1 |-> SubSeq(s, 1, n),
              g3 |-> SomeStr(DotStar(SubSeq(s, n + 2, Len(s))))]
        ELSE [matched |-> FALSE, g1 |-> <<>>, g3 |-> NoneStr]

\* Regex::new("^(project-[A-Za-z0-9]{24})(:(.*))?").captures(&path):
\* whether it matches, group 1 and group 3.
ProjectCaptures(s) ==
    LET n == Len(ProjectTag) + IdLen
    IN  IF IdAtStart(s, ProjectTag)
        THEN [matched |-> TRUE,
              g1 |-> SubSeq(s, 1, n),
              g3 |-> IF Len(s) > n /\ s[n + 1] = ":"
                     THEN SomeStr(DotStar(SubSeq(s, n + 2, Len(s))))
                     ELSE NoneStr]
        ELSE [matched |-> FALSE, g1 |-> <<>>, g3 |-> NoneStr]

\* caps.get(3).map_or("".to_string(), |m| m.as_str().to_string())
AfterProject(caps) == IF caps.g3.some THEN caps.g3.v ELSE <<>>

\* Regex::new("^:?(.+)?").captures(&path), which always matches: group 1.
PathCapture(s) ==
    LET rest == IF s # <<>> /\ s[1] = ":" THEN Tail(s) ELSE s
        g == DotStar(rest)
    IN  IF g = <<>> THEN NoneStr ELSE SomeStr(g)

\* A mutant of DefaultPath: the folder "/" stands in for a missing path.
DefaultPathRoot(w) == <<"/">>

\* The default of caps.get(1).map_or(dx_env.cli_wd.to_string(), ...)
DefaultPath(w) == w

\* Regex::new("^file-[A-Za-z0-9]{24}$").is_match(&path)
IsFileId(s) == IdAtStart(s, FileTag) /\ Len(s) = Len(FileTag) + IdLen

\* A mutant of IsRelative: no path is taken for a relative one.
IsRelativeNever(s) == FALSE

\* Path::new(&path).is_relative()
IsRelative(s) == ~StartsWithSlash(s)

\* A mutant of Join: a '/' is put between the two whatever base ends with.
JoinAlwaysSlash(base, s) == base \o <<"/">> \o s

\* Path::new(base).join(s): s alone when it is absolute, else base and s
\* with a '/' between them unless base is empty or ends with one.
Join(base, s) ==
    IF StartsWithSlash(s) THEN s
    ELSE IF base = <<>> \/ base[Len(base)] = "/" THEN base \o s
    ELSE base \o <<"/">> \o s

\* resolve_path(dx_env, path) with dx_env.project_context_id = c and
\* dx_env.cli_wd = w.
ResolvePath(c, w, input) ==
    LET caps == ProjectCaptures(input)
        project_id == IF caps.matched THEN caps.g1 ELSE c
        path1 == IF caps.matched THEN AfterProject(caps) ELSE input
        g == PathCapture(path1)
        path2 == IF g.some THEN g.v ELSE DefaultPath(w)
        path3 == IF ~IsFileId(path2) /\ IsRelative(path2)
                 THEN Join(w, path2)
                 ELSE path2
    IN  PathResult("DxPath", project_id, path3)

\* A mutant of IsFileOrPath: a relative path is not put under the working
\* path.
IsFileOrPathNoJoin(c, w, input) ==
    LET caps == ProjectCaptures(input)
        project_id == IF caps.matched THEN caps.g1 ELSE c
        path1 == IF caps.matched THEN AfterProject(caps) ELSE input
        g == PathCapture(path1)
        path2 == IF g.some THEN g.v ELSE DefaultPath(w)
    IN  IF IsFileId(path2)
        THEN PathResult("File", project_id, path2)
        ELSE PathResult("Path", project_id, path2)

\* is_file_or_path(dx_env, path)
IsFileOrPath(c, w, input) ==
    LET caps == ProjectCaptures(input)
        project_id == IF caps.matched THEN caps.g1 ELSE c
        path1 == IF caps.matched THEN AfterProject(caps) ELSE input
        g == PathCapture(path1)
        path2 == IF g.some THEN g.v ELSE DefaultPath(w)
    IN  IF IsFileId(path2)
        THEN PathResult("File", project_id, path2)
        ELSE PathResult("Path", project_id,
                        IF IsRelative(path2) THEN Join(w, path2) ELSE path2)

\* A mutant of Rooted: the path is left as the pattern captured it.
RootedNot(s) == s

\* if !path.starts_with('/') { path = format!("/{path}") }
Rooted(s) == IF StartsWithSlash(s) THEN s ELSE <<"/">> \o s

\* Regex::new("^(project-[A-Za-z0-9]{24})?:?(.*)$").captures(&destination):
\* it matches when no "\n" is in the string; groups 1 and 2.
DestinationCaptures(s) ==
    LET n == Len(ProjectTag) + IdLen
        has == IdAtStart(s, ProjectTag)
        rest == IF has THEN SubSeq(s, n + 1, Len(s)) ELSE s
    IN  IF DotStar(s) = s
        THEN [matched |-> TRUE,
              g1 |-> IF has THEN SomeStr(SubSeq(s, 1, n)) ELSE NoneStr,
              g2 |-> IF rest # <<>> /\ rest[1] = ":" THEN Tail(rest)
                     ELSE rest]
        ELSE [matched |-> FALSE, g1 |-> NoneStr, g2 |-> <<>>]

\* parse_project_path(dx_env, destination), destination an Option<String>.
ParseProjectPath(c, w, destination) ==
    LET dest == IF destination.some THEN destination.v ELSE w
        caps == DestinationCaptures(dest)
        project_id == IF caps.matched /\ caps.g1.some THEN caps.g1.v ELSE c
        path == IF caps.matched THEN caps.g2 ELSE dest
    IN  PathResult("ProjectPath", project_id, Rooted(path))

\* The identifiers the inputs are made of.
Project1 == ProjectTag \o Rep("A", IdLen)
Project2 == ProjectTag \o Rep("B", IdLen)
File1 == FileTag \o Rep("C", IdLen)

\* The pieces an input is made of.
Pieces == {Project1, File1, <<":">>, <<"/">>, <<"x">>, <<"\n">>}

RECURSIVE Concat(_)
Concat(ps) == IF ps = <<>> THEN <<>> ELSE Head(ps) \o Concat(Tail(ps))

Inputs == {Concat(ps) : ps \in UNION {[1..k -> Pieces] : k \in 0..MaxParts}}

\* The working paths: cli_wd is written by login ("/") and by cd (a folder
\* that starts with '/').
WorkingPaths == {<<"/">>, <<"/", "w", "/", "w">>}

PathInit ==
    /\ p_c \in {Project1, Project2}
    /\ p_w \in WorkingPaths
    /\ p_input \in Inputs
    /\ p_fn = "none"
    /\ p_out = NoPathResult

CallResolvePath ==
    /\ p_fn = "none"
    /\ p_fn' = "resolve_path"
    /\ p_out' = ResolvePath(p_c, p_w, p_input)
    /\ UNCHANGED <<p_c, p_w, p_input>>
    /\ UNCHANGED notPath

CallIsFileOrPath ==
    /\ p_fn = "none"
    /\ p_fn' = "is_file_or_path"
    /\ p_out' = IsFileOrPath(p_c, p_w, p_input)
    /\ UNCHANGED <<p_c, p_w, p_input>>
    /\ UNCHANGED notPath

\* upload: parse_project_path(&dx_env, &args.path), with or without --path
CallParseProjectPath ==
    /\ p_fn = "none"
    /\ \E given \in BOOLEAN :
        /\ p_fn' = IF given THEN "parse_project_path"
                   ELSE "parse_project_path_none"
        /\ p_out' = ParseProjectPath(p_c, p_w,
                        IF given THEN SomeStr(p_input) ELSE NoneStr)
    /\ UNCHANGED <<p_c, p_w, p_input>>
    /\ UNCHANGED notPath

PathNext ==
    \/ CallResolvePath
    \/ CallIsFileOrPath
    \/ CallParseProjectPath

\* One of the path functions runs; nothing else does.
PathStart ==
    /\ PathInit
    /\ UploadIdle
    /\ SearchIdle
    /\ DownloadIdle
    /\ CmdIdle
    /\ NormalizeIdle
    /\ NewOptsIdle
    /\ RmdirIdle
    /\ FetchIdle
    /\ RmProjectIdle

PathSpec == PathStart /\ [][PathNext]_vars

\* ------------------------------------------------------------------------
\* api::download_file
\* ------------------------------------------------------------------------
\* A body is the sequence of its bytes.
Bodies == UNION {[1..n -> {0, 1}] : n \in 0..MaxBody}

\* res.content_length(): the exact size of the body when the transport
\* knows it (a Content-Length header frames the body), else None.
ContentLengths(body) == {Some(Len(body)), None}

Statuses == {"OK", "other"}

DownloadInit ==
    /\ \E b \in Bodies : \E s \in Statuses : \E c \in ContentLengths(b) :
        d_response = [status |-> s, content_length |-> c, body |-> b]
    /\ d_quiet \in BOOLEAN
    /\ d_pc = "start"
    /\ total_size = 0
    /\ progress = NoProgress
    /\ downloaded = 0
    /\ d_rest = <<>>
    /\ d_chunks = 0
    /\ d_sink = <<>>
    /\ d_result = DNoResult

DReturn(r) ==
    /\ d_pc' = "done"
    /\ d_result' = r

\* The header map is built and the request is sent; either may fail (`?`).
Send ==
    /\ d_pc = "start"
    /\ \E failure \in {"none", "header", "send"} :
        IF failure = "none"
        THEN /\ d_pc' = "sent"
             /\ UNCHANGED d_result
        ELSE DReturn(DErr(failure))
    /\ UNCHANGED <<d_response, d_quiet, total_size, progress, downloaded,
                   d_rest, d_chunks, d_sink>>
    /\ UNCHANGED notDownload

\* A mutant of TotalSizeOf: an unknown content length counts as 0.
TotalSizeOrZero(content_length) ==
    [ok |-> TRUE, v |-> IF content_length.some THEN content_length.v ELSE 0]

\* res.content_length().ok_or(anyhow!("Failed to get content length ..."))
TotalSizeOf(content_length) ==
    IF content_length.some THEN [ok |-> TRUE, v |-> content_length.v]
    ELSE [ok |-> FALSE, v |-> 0]

\* let total_size = ...?; let progress = if quiet { None } else { Some(pb) }
TotalSize ==
    /\ d_pc = "sent"
    /\ LET size == TotalSizeOf(d_response.content_length)
       IN  IF size.ok
           THEN /\ total_size' = size.v
                /\ progress' = IF d_quiet THEN NoProgress
                               ELSE ProgressBar(size.v)
                /\ d_pc' = "status"
                /\ UNCHANGED d_result
           ELSE /\ DReturn(DErr("Failed to get content length"))
                /\ UNCHANGED <<total_size, progress>>
    /\ UNCHANGED <<d_response, d_quiet, downloaded, d_rest, d_chunks, d_sink>>
    /\ UNCHANGED notDownload

\* match res.status(): on OK the body is streamed, else the error is
\* returned.
MatchStatus ==
    /\ d_pc = "status"
    /\ IF d_response.status = "OK"
       THEN /\ downloaded' = 0
            /\ d_rest' = d_response.body
            /\ d_pc' = "loop"
            /\ UNCHANGED d_result
       ELSE /\ DReturn(DErr("status"))
            /\ UNCHANGED <<downloaded, d_rest>>
    /\ UNCHANGED <<d_response, d_quiet, total_size, progress, d_chunks,
                   d_sink>>
    /\ UNCHANGED notDownload

\* A mutant of NewPosition: the chunk's length is not added to the counter.
NewPositionOfChunk(count, len, total) == IF len < total THEN len ELSE total

\* std::cmp::min(downloaded + (chunk.len() as u64), total_size)
NewPosition(count, len, total) ==
    IF count + len < total THEN count + len ELSE total

\* pb.set_position(new), when there is a progress bar
SetPosition(pb, new) == IF pb.some THEN [pb EXCEPT !.position = new] ELSE pb

\* A mutant of WriteChunk: each chunk is written at the start of the sink.
WriteChunkOverwrites ==
    /\ d_pc = "loop"
    /\ \E n \in 1..Len(d_rest) :
        LET chunk == SubSeq(d_rest, 1, n)
            new == NewPosition(downloaded, Len(chunk), total_size)
        IN  /\ d_rest' = SubSeq(d_rest, n + 1, Len(d_rest))
            /\ d_chunks' = d_chunks + 1
            /\ d_sink' = chunk
            /\ downloaded' = new
            /\ progress' = SetPosition(progress, new)
    /\ UNCHANGED <<d_response, d_quiet, d_pc, total_size, d_result>>
    /\ UNCHANGED notDownload

\* stream.next() gives Some(Ok(chunk)) and write_all(&chunk) succeeds.
WriteChunk ==
    /\ d_pc = "loop"
    /\ \E n \in 1..Len(d_rest) :
        LET chunk == SubSeq(d_rest, 1, n)
            new == NewPosition(downloaded, Len(chunk), total_size)
        IN  /\ d_rest' = SubSeq(d_rest, n + 1, Len(d_rest))
            /\ d_chunks' = d_chunks + 1
            /\ d_sink' = d_sink \o chunk
            /\ downloaded' = new
            /\ progress' = SetPosition(progress, new)
    /\ UNCHANGED <<d_response, d_quiet, d_pc, total_size, d_result>>
    /\ UNCHANGED notDownload

\* stream.next() gives Some(Err(_)): the transport failed before the body
\* was complete.
StreamError ==
    /\ d_pc = "loop"
    /\ d_rest # <<>>
    /\ DReturn(DErr("Error while downloading file"))
    /\ UNCHANGED <<d_response, d_quiet, total_size, progress, downloaded,
                   d_rest, d_chunks, d_sink>>
    /\ UNCHANGED notDownload

\* stream.next() gives Some(Ok(chunk)) and write_all(&chunk) fails, after
\* the sink took some of the chunk's bytes or none.
WriteError ==
    /\ d_pc = "loop"
    /\ \E n \in 1..Len(d_rest) : \E k \in 0..(n - 1) :
        /\ d_rest' = SubSeq(d_rest, n + 1, Len(d_rest))
        /\ d_chunks' = d_chunks + 1
        /\ d_sink' = d_sink \o SubSeq(d_rest, 1, k)
    /\ DReturn(DErr("Error while writing to file"))
    /\ UNCHANGED <<d_response, d_quiet, total_size, progress, downloaded>>
    /\ UNCHANGED notDownload

\* stream.next() gives None: pb.finish_with_message, Ok(())
StreamEnd ==
    /\ d_pc = "loop"
    /\ d_rest = <<>>
    /\ DReturn(DOk)
    /\ UNCHANGED <<d_response, d_quiet, total_size, progress, downloaded,
                   d_rest, d_chunks, d_sink>>
    /\ UNCHANGED notDownload

DownloadNext ==
    \/ Send
    \/ TotalSize
    \/ MatchStatus
    \/ WriteChunk
    \/ StreamError
    \/ WriteError
    \/ StreamEnd

\* One download runs; nothing else does.
DownloadStart ==
    /\ DownloadInit
    /\ UploadIdle
    /\ SearchIdle
    /\ PathIdle
    /\ CmdIdle
    /\ NormalizeIdle
    /\ NewOptsIdle
    /\ RmdirIdle
    /\ FetchIdle
    /\ RmProjectIdle

DownloadSpec == DownloadStart /\ [][DownloadNext]_vars

\* ------------------------------------------------------------------------
\* The download commands: download (lib.rs) under main (main.rs), and run
\* under main of dxrs-download-all-inputs
\* ------------------------------------------------------------------------
\* The ways the transfer of a file fails: the descriptor request
\* (api::download), the streamed fetch or the write to the sink
\* (api::download_file).
TransferErrors == {"descriptor", "fetch", "write"}

Outcomes == {"ok"} \cup TransferErrors

Commands == {"download", "download-all-inputs"}

CmdInit ==
    /\ c_cmd \in Commands
    /\ c_parallel \in BOOLEAN
    /\ c_cmd = "download" => ~c_parallel
    /\ c_outcomes \in UNION {[1..n -> Outcomes] : n \in 1..MaxFiles}
    /\ c_results = [i \in 1..Len(c_outcomes) |-> "pending"]
    /\ c_stderr = <<>>
    /\ c_pc = "setup"
    /\ c_run = "none"
    /\ c_exit = NoExit

Pending == {i \in 1..Len(c_results) : c_results[i] = "pending"}

\* The files whose transfer may run next: the first pending one, or any
\* pending one under par_iter.
Runnable ==
    IF c_parallel THEN Pending
    ELSE {i \in Pending : \A j \in Pending : i <= j}

\* Everything before the transfers: get_dx_env()?, the output directory,
\* the searches or the parse of the input file; each may fail with `?`.
CmdSetup ==
    /\ c_pc = "setup"
    /\ \E ok \in BOOLEAN :
        IF ok
        THEN /\ c_pc' = "files"
             /\ UNCHANGED c_run
        ELSE /\ c_pc' = "return"
             /\ c_run' = "Err"
    /\ UNCHANGED <<c_cmd, c_parallel, c_outcomes, c_results, c_stderr, c_exit>>
    /\ UNCHANGED notCmd

\* download: if let Err(e) = download_file(..) { eprintln!("{e}") }
DownloadOne ==
    /\ c_pc = "files"
    /\ c_cmd = "download"
    /\ \E i \in Runnable :
        /\ c_results' = [c_results EXCEPT ![i] = c_outcomes[i]]
        /\ c_stderr' = IF c_outcomes[i] \in TransferErrors
                       THEN Append(c_stderr, c_outcomes[i])
                       ELSE c_stderr
    /\ UNCHANGED <<c_cmd, c_parallel, c_outcomes, c_pc, c_run, c_exit>>
    /\ UNCHANGED notCmd

\* download: Ok(()) after the last path
DownloadReturn ==
    /\ c_pc = "files"
    /\ c_cmd = "download"
    /\ Pending = {}
    /\ c_run' = "Ok"
    /\ c_pc' = "return"
    /\ UNCHANGED <<c_cmd, c_parallel, c_outcomes, c_results, c_stderr, c_exit>>
    /\ UNCHANGED notCmd

\* run: downloads.iter() or par_iter() .map(|file| download_file(..))
MapDownload ==
    /\ c_pc = "files"
    /\ c_cmd = "download-all-inputs"
    /\ \E i \in Runnable :
        c_results' = [c_results EXCEPT ![i] = c_outcomes[i]]
    /\ UNCHANGED <<c_cmd, c_parallel, c_outcomes, c_stderr, c_pc, c_run,
                   c_exit>>
    /\ UNCHANGED notCmd

\* The errors among rs, in the order of rs.
RECURSIVE ErrorsOf(_)
ErrorsOf(rs) ==
    IF rs = <<>> THEN <<>>
    ELSE IF Head(rs) \in TransferErrors
         THEN <<Head(rs)>> \o ErrorsOf(Tail(rs))
         ELSE ErrorsOf(Tail(rs))

\* run: for err in results.iter().filter(|v| v.is_err()) { eprintln!(..) }
\* and then Ok(())
ReportErrors ==
    /\ c_pc = "files"
    /\ c_cmd = "download-all-inputs"
    /\ Pending = {}
    /\ c_stderr' = c_stderr \o ErrorsOf(c_results)
    /\ c_run' = "Ok"
    /\ c_pc' = "return"
    /\ UNCHANGED <<c_cmd, c_parallel, c_outcomes, c_results, c_exit>>
    /\ UNCHANGED notCmd

\* main: std::process::exit(1) on Err, the end of main on Ok
ExitCode(run) == IF run = "Err" THEN 1 ELSE 0

\* main: if let Err(e) = run(..) { eprintln!("{e}"); std::process::exit(1) }
Exit ==
    /\ c_pc = "return"
    /\ c_stderr' = IF c_run = "Err" THEN Append(c_stderr, "setup")
                   ELSE c_stderr
    /\ c_exit' = ExitCode(c_run)
    /\ c_pc' = "exited"
    /\ UNCHANGED <<c_cmd, c_parallel, c_outcomes, c_results, c_run>>
    /\ UNCHANGED notCmd

CmdNext ==
    \/ CmdSetup
    \/ DownloadOne
    \/ DownloadReturn
    \/ MapDownload
    \/ ReportErrors
    \/ Exit

\* One download command runs; nothing else does.
CmdStart ==
    /\ CmdInit
    /\ UploadIdle
    /\ SearchIdle
    /\ PathIdle
    /\ DownloadIdle
    /\ NormalizeIdle
    /\ NewOptsIdle
    /\ RmdirIdle
    /\ FetchIdle
    /\ RmProjectIdle

CmdSpec == CmdStart /\ [][CmdNext]_vars

\* ------------------------------------------------------------------------
\* normalize
\* ------------------------------------------------------------------------
\* The characters of the model, by the classes of the patterns: [A-Za-z],
\* [0-9], \s, and the rest with and without a place in [a-zA-Z0-9_.-].
Letters == {"a"}
Digits == {"1"}
Whitespace == {" ", "\t"}
NameChars == Letters \cup Digits \cup Whitespace \cup {".", "~"}

\* [a-zA-Z0-9_.-]
GoodChars == Letters \cup Digits \cup {"_", ".", "-"}

Names == UNION {[1..n -> NameChars] : n \in 0..MaxName}

\* Regex::new(r"^[A-Za-z]").find(&val) is Some(_)
CharStart(val) == val # <<>> /\ val[1] \in Letters

\* spaces.replace(&val, "_"): Regex::replace replaces the first match only.
ReplaceSpace(val) ==
    IF \E i \in 1..Len(val) : val[i] \in Whitespace
    THEN LET first == CHOOSE i \in 1..Len(val) :
                          /\ val[i] \in Whitespace
                          /\ \A j \in 1..(i - 1) : val[j] \notin Whitespace
         IN  [val EXCEPT ![first] = "_"]
    ELSE val

IsGood(c) == c \in GoodChars

\* bad_chars.replace_all(.., "")
RemoveBadChars(val) == SelectSeq(val, IsGood)

\* normalize(val)
Normalized(val) ==
    IF CharStart(val) THEN NOk(RemoveBadChars(ReplaceSpace(val)))
    ELSE NErr("must begin with a character")

NormalizeInit ==
    /\ n_val \in Names
    /\ n_pc = "start"
    /\ n_out = NNoResult

Normalize ==
    /\ n_pc = "start"
    /\ n_out' = Normalized(n_val)
    /\ n_pc' = "done"
    /\ UNCHANGED n_val
    /\ UNCHANGED notNormalize

NormalizeNext ==
    \/ Normalize

\* normalize is applied to one value; nothing else runs.
NormalizeStart ==
    /\ NormalizeInit
    /\ UploadIdle
    /\ SearchIdle
    /\ PathIdle
    /\ DownloadIdle
    /\ CmdIdle
    /\ NewOptsIdle
    /\ RmdirIdle
    /\ FetchIdle
    /\ RmProjectIdle

NormalizeSpec == NormalizeStart /\ [][NormalizeNext]_vars

\* ------------------------------------------------------------------------
\* upload_local_file: the options of file_new
\* ------------------------------------------------------------------------
\* A path is the sequence of its components; <<>> is "/" for a destination
\* (parse_project_path returns paths that start with '/').
FolderNames == {"data", "out", ".."}

DestinationPaths == UNION {[1..n -> FolderNames] : n \in 0..MaxDepth}

\* The local sources: a basename, alone or in a directory.
LocalFiles ==
    {dir \o <<base>> : dir \in {<<>>, <<"in">>, <<"..">>},
                       base \in {"x.txt", "y.txt"}}

NoName == [some |-> FALSE, v |-> ""]
SomeName(n) == [some |-> TRUE, v |-> n]

\* Path::file_name: the last component, None when the path has none or
\* ends in "..".
FileName(path) ==
    IF path = <<>> \/ path[Len(path)] = ".." THEN NoName
    ELSE SomeName(path[Len(path)])

\* destination.path.file_name().unwrap_or(local_basename)
Basename(destination_path, filename) ==
    LET local_basename == FileName(filename).v
        name == FileName(destination_path)
    IN  IF name.some THEN name.v ELSE local_basename

NewOptsInit ==
    /\ o_filename \in LocalFiles
    /\ o_destination \in [project_id : {"project-1", "project-2"},
                          path : DestinationPaths]
    /\ o_pc = "start"
    /\ new_opts = [project |-> "", name |-> "", folder |-> <<>>,
                   parents |-> FALSE]

\* let new_opts = FileNewOptions { project, name: Some(basename), folder:
\* Some(destination.path.display().to_string()), parents: Some(true), .. }
BuildNewOpts ==
    /\ o_pc = "start"
    /\ new_opts' = [project |-> o_destination.project_id,
                    name |-> Basename(o_destination.path, o_filename),
                    folder |-> o_destination.path,
                    parents |-> TRUE]
    /\ o_pc' = "done"
    /\ UNCHANGED <<o_filename, o_destination>>
    /\ UNCHANGED notNewOpts

NewOptsNext ==
    \/ BuildNewOpts

\* The options of one file_new are built; nothing else runs.
NewOptsStart ==
    /\ NewOptsInit
    /\ UploadIdle
    /\ SearchIdle
    /\ PathIdle
    /\ DownloadIdle
    /\ CmdIdle
    /\ NormalizeIdle
    /\ RmdirIdle
    /\ FetchIdle
    /\ RmProjectIdle

NewOptsSpec == NewOptsStart /\ [][NewOptsNext]_vars

\* ------------------------------------------------------------------------
\* rmdir (lib.rs) over api::rmdir
\* ------------------------------------------------------------------------
Folders == {"/a", "/b"}

RmdirInit ==
    /\ r_paths \in UNION {[1..n -> Folders] : n \in 1..MaxFolders}
    /\ r_left \in [1..Len(r_paths) -> 1..MaxRounds]
    /\ r_index = 0
    /\ r_options = NoRmdirOptions
    /\ r_pc = "setup"
    /\ r_requests = <<>>
    /\ r_responses = <<>>
    /\ r_result = "none"

\* let dx_env = get_dx_env()?;
RmdirSetup ==
    /\ r_pc = "setup"
    /\ \E ok \in BOOLEAN :
        IF ok
        THEN /\ r_pc' = "for"
             /\ UNCHANGED r_result
        ELSE /\ r_pc' = "done"
             /\ r_result' = "Err"
    /\ UNCHANGED <<r_paths, r_left, r_index, r_options, r_requests,
                   r_responses>>
    /\ UNCHANGED notRmdir

\* for path in &args.paths { let dest = resolve_path(..)?; let options =
\* RmdirOptions { folder: dest.path, recurse: Some(true), force: None,
\* partial: Some(true) };
NextPath ==
    /\ r_pc = "for"
    /\ r_index < Len(r_paths)
    /\ r_index' = r_index + 1
    /\ r_options' = [folder |-> r_paths[r_index + 1], recurse |-> TRUE,
                     partial |-> TRUE]
    /\ r_pc' = "loop"
    /\ UNCHANGED <<r_paths, r_left, r_requests, r_responses, r_result>>
    /\ UNCHANGED notRmdir

\* The answers of the platform to a removeFolder request for a folder that
\* needs `left` more requests: an error, or completed = false while more
\* than one is needed, then completed = true or no completed at all.
RmdirAnswers(left) ==
    {[outcome |-> "error", completed |-> None]}
    \cup (IF left > 1
          THEN {[outcome |-> "ok", completed |-> Some(FALSE)]}
          ELSE {[outcome |-> "ok", completed |-> Some(TRUE)],
                [outcome |-> "ok", completed |-> None]})

\* A mutant of Completed: every answer counts as completed.
CompletedAlways(res) == TRUE

\* res.completed.unwrap_or(true)
Completed(res) == IF res.completed.some THEN res.completed.v ELSE TRUE

\* One round of `loop { let res = api::rmdir(..)?; if
\* res.completed.unwrap_or(true) { break; } }`
RmdirRound ==
    /\ r_pc = "loop"
    /\ Len(r_requests) < MaxFolders * MaxRounds + 1
    /\ r_requests' = Append(r_requests,
                            [path |-> r_index, options |-> r_options])
    /\ \E res \in RmdirAnswers(r_left[r_index]) :
        /\ r_responses' = Append(r_responses, res)
        /\ IF res.outcome = "error"
           THEN /\ r_pc' = "done"
                /\ r_result' = "Err"
                /\ UNCHANGED r_left
           ELSE /\ r_left' = [r_left EXCEPT ![r_index] =
                                 IF @ > 1 THEN @ - 1 ELSE @]
                /\ r_pc' = IF Completed(res) THEN "for" ELSE "loop"
                /\ UNCHANGED r_result
    /\ UNCHANGED <<r_paths, r_index, r_options>>
    /\ UNCHANGED notRmdir

\* Ok(()) after the last path
RmdirReturn ==
    /\ r_pc = "for"
    /\ r_index = Len(r_paths)
    /\ r_pc' = "done"
    /\ r_result' = "Ok"
    /\ UNCHANGED <<r_paths, r_left, r_index, r_options, r_requests,
                   r_responses>>
    /\ UNCHANGED notRmdir

RmdirNext ==
    \/ RmdirSetup
    \/ NextPath
    \/ RmdirRound
    \/ RmdirReturn

\* rmdir runs; nothing else does.
RmdirStart ==
    /\ RmdirInit
    /\ UploadIdle
    /\ SearchIdle
    /\ PathIdle
    /\ DownloadIdle
    /\ CmdIdle
    /\ NormalizeIdle
    /\ NewOptsIdle
    /\ FetchIdle
    /\ RmProjectIdle

\* rmdir runs on the main thread, each api::rmdir under #[tokio::main]: a
\* step that can be taken is taken.
RmdirSpec == RmdirStart /\ [][RmdirNext]_vars /\ WF_vars(RmdirNext)

\* ------------------------------------------------------------------------
\* download_file (lib.rs): one file, from its id to the local target
\* ------------------------------------------------------------------------
FetchInit ==
    /\ f_force \in BOOLEAN
    /\ f_output \in {"none", "-", "name"}
    /\ f_existed \in BOOLEAN
    /\ f_local = IF f_existed THEN "old" ELSE "absent"
    /\ f_pc = "outdir"
    /\ f_calls = <<>>
    /\ f_result = "none"

FReturn(r) ==
    /\ f_pc' = "done"
    /\ f_result' = r

\* What is called, and whether it succeeded.
Made(op, ok) == [op |-> op, ok |-> ok]

\* if !outdir.is_dir() { fs::create_dir_all(outdir)?; }
MakeOutdir ==
    /\ f_pc = "outdir"
    /\ \E ok \in BOOLEAN :
        IF ok THEN f_pc' = "describe" /\ UNCHANGED f_result
        ELSE FReturn("io")
    /\ UNCHANGED <<f_force, f_output, f_existed, f_local, f_calls>>
    /\ UNCHANGED notFetch

\* let desc = api::describe_file(dx_env, file_id, &desc_opts)?;
DescribeFile ==
    /\ f_pc = "describe"
    /\ \E ok \in BOOLEAN :
        /\ f_calls' = Append(f_calls, Made("describe_file", ok))
        /\ IF ok THEN f_pc' = "check" /\ UNCHANGED f_result
           ELSE FReturn("platform")
    /\ UNCHANGED <<f_force, f_output, f_existed, f_local>>
    /\ UNCHANGED notFetch

\* local_path: "-" for the output "-", else a path under outdir.
LocalPath(output) == IF output = "-" THEN "-" ELSE "path"

\* A mutant of Refuses: the force flag is read the wrong way round.
RefusesWhenForced(local_path, exists, force) ==
    local_path # "-" /\ exists /\ force

\* if local_path != "-" { if path.exists() && !args.force { bail!(..) } }
Refuses(local_path, exists, force) ==
    local_path # "-" /\ exists /\ ~force

CheckOverwrite ==
    /\ f_pc = "check"
    /\ IF Refuses(LocalPath(f_output), f_local # "absent", f_force)
       THEN FReturn("Use force to overwrite")
       ELSE f_pc' = "download" /\ UNCHANGED f_result
    /\ UNCHANGED <<f_force, f_output, f_existed, f_local, f_calls>>
    /\ UNCHANGED notFetch

\* let download = api::download(dx_env, file_id, &dl_options)?;
RequestDownload ==
    /\ f_pc = "download"
    /\ \E ok \in BOOLEAN :
        /\ f_calls' = Append(f_calls, Made("download", ok))
        /\ IF ok THEN f_pc' = "open" /\ UNCHANGED f_result
           ELSE FReturn("platform")
    /\ UNCHANGED <<f_force, f_output, f_existed, f_local>>
    /\ UNCHANGED notFetch

\* let outfile = open_outfile(&local_path)?;  File::create makes the file
\* or truncates it; "-" is standard output.
OpenOutfile ==
    /\ f_pc = "open"
    /\ \E ok \in {TRUE} \cup (IF LocalPath(f_output) = "-" THEN {}
                              ELSE {FALSE}) :
        /\ f_calls' = Append(f_calls, Made("open_outfile", ok))
        /\ IF ok
           THEN /\ f_local' = IF LocalPath(f_output) = "-" THEN f_local
                              ELSE "empty"
                /\ f_pc' = "fetch"
                /\ UNCHANGED f_result
           ELSE /\ FReturn("io")
                /\ UNCHANGED f_local
    /\ UNCHANGED <<f_force, f_output, f_existed>>
    /\ UNCHANGED notFetch

\* api::download_file(&download, outfile, filename, args.quiet)?; Ok(())
FetchFile ==
    /\ f_pc = "fetch"
    /\ \E ok \in BOOLEAN :
        /\ f_calls' = Append(f_calls, Made("download_file", ok))
        /\ IF ok
           THEN /\ f_local' = IF LocalPath(f_output) = "-" THEN f_local
                              ELSE "new"
                /\ FReturn("Ok")
           ELSE /\ \E left \in {"empty", "partial"} :
                    f_local' = IF LocalPath(f_output) = "-" THEN f_local
                               ELSE left
                /\ FReturn("transfer")
    /\ UNCHANGED <<f_force, f_output, f_existed>>
    /\ UNCHANGED notFetch

FetchNext ==
    \/ MakeOutdir
    \/ DescribeFile
    \/ CheckOverwrite
    \/ RequestDownload
    \/ OpenOutfile
    \/ FetchFile

\* download_file runs for one file; nothing else does.
FetchStart ==
    /\ FetchInit
    /\ UploadIdle
    /\ SearchIdle
    /\ PathIdle
    /\ DownloadIdle
    /\ CmdIdle
    /\ NormalizeIdle
    /\ NewOptsIdle
    /\ RmdirIdle
    /\ RmProjectIdle

FetchSpec == FetchStart /\ [][FetchNext]_vars

\* ------------------------------------------------------------------------
\* rm_project (lib.rs)
\* ------------------------------------------------------------------------
\* How many projects a search can find: none, one, more than one.
MatchCounts == {0, 1, 2}

RmProjectInit ==
    /\ m_force \in BOOLEAN
    /\ m_matches \in UNION {[1..n -> MatchCounts] : n \in 1..MaxProjects}
    /\ m_index = 0
    /\ m_found = <<>>
    /\ m_confirm = <<>>
    /\ m_destroys = <<>>
    /\ m_pc = "setup"
    /\ m_result = "none"

MReturn(r) ==
    /\ m_pc' = "done"
    /\ m_result' = r

\* let dx_env = get_dx_env()?;
RmProjectSetup ==
    /\ m_pc = "setup"
    /\ \E ok \in BOOLEAN :
        IF ok THEN m_pc' = "for" /\ UNCHANGED m_result
        ELSE MReturn("Err")
    /\ UNCHANGED <<m_force, m_matches, m_index, m_found, m_confirm,
                   m_destroys>>
    /\ UNCHANGED notRmProject

\* for project in args.projects { let found = find_project(..)?;
\* let num_found = found.len();
FindProject ==
    /\ m_pc = "for"
    /\ m_index < Len(m_matches)
    /\ \E ok \in BOOLEAN :
        IF ok
        THEN /\ m_index' = m_index + 1
             /\ m_found' = Append(m_found, m_matches[m_index + 1])
             /\ m_confirm' = Append(m_confirm, "none")
             /\ m_pc' = "match"
             /\ UNCHANGED m_result
        ELSE /\ MReturn("Err")
             /\ UNCHANGED <<m_index, m_found, m_confirm>>
    /\ UNCHANGED <<m_force, m_matches, m_destroys>>
    /\ UNCHANGED notRmProject

\* match num_found { 0 => println!(.. cannot be found), _ => println!(Found
\* {num_found} projects ..) }
NotOneProject ==
    /\ m_pc = "match"
    /\ m_found[m_index] # 1
    /\ m_pc' = "for"
    /\ UNCHANGED <<m_force, m_matches, m_index, m_found, m_confirm,
                   m_destroys, m_result>>
    /\ UNCHANGED notRmProject

\* What Confirm::prompt() gives: the user's answer, or an error.
Answers == {"Ok(true)", "Ok(false)", "Err"}

\* 1 => { let confirm = if args.force { Ok(true) } else { Confirm::new(..)
\* .with_default(false).prompt() };
AskConfirm ==
    /\ m_pc = "match"
    /\ m_found[m_index] = 1
    /\ \E answer \in (IF m_force THEN {"Ok(true)"} ELSE Answers) :
        m_confirm' = [m_confirm EXCEPT ![m_index] = answer]
    /\ m_pc' = "confirm"
    /\ UNCHANGED <<m_force, m_matches, m_index, m_found, m_destroys,
                   m_result>>
    /\ UNCHANGED notRmProject

\* A mutant of Confirmed: only a plain no keeps the project.
ConfirmedUnlessNo(confirm) == confirm # "Ok(false)"

\* match confirm { Ok(true) => .. }
Confirmed(confirm) == confirm = "Ok(true)"

\* Ok(true) => { let removed = api::rm_project(..)?; println!(..) }
Destroy ==
    /\ m_pc = "confirm"
    /\ Confirmed(m_confirm[m_index])
    /\ m_destroys' = Append(m_destroys, m_index)
    /\ \E ok \in BOOLEAN :
        IF ok THEN m_pc' = "for" /\ UNCHANGED m_result
        ELSE MReturn("Err")
    /\ UNCHANGED <<m_force, m_matches, m_index, m_found, m_confirm>>
    /\ UNCHANGED notRmProject

\* Ok(false) => println!("Will not delete"), _ => println!("Try again")
KeepProject ==
    /\ m_pc = "confirm"
    /\ ~Confirmed(m_confirm[m_index])
    /\ m_pc' = "for"
    /\ UNCHANGED <<m_force, m_matches, m_index, m_found, m_confirm,
                   m_destroys, m_result>>
    /\ UNCHANGED notRmProject

\* Ok(()) after the last argument
RmProjectReturn ==
    /\ m_pc = "for"
    /\ m_index = Len(m_matches)
    /\ MReturn("Ok")
    /\ UNCHANGED <<m_force, m_matches, m_index, m_found, m_confirm,
                   m_destroys>>
    /\ UNCHANGED notRmProject

RmProjectNext ==
    \/ RmProjectSetup
    \/ FindProject
    \/ NotOneProject
    \/ AskConfirm
    \/ Destroy
    \/ KeepProject
    \/ RmProjectReturn

\* rm_project runs; nothing else does.
RmProjectStart ==
    /\ RmProjectInit
    /\ UploadIdle
    /\ SearchIdle
    /\ PathIdle
    /\ DownloadIdle
    /\ CmdIdle
    /\ NormalizeIdle
    /\ NewOptsIdle
    /\ RmdirIdle
    /\ FetchIdle

RmProjectSpec == RmProjectStart /\ [][RmProjectNext]_vars

\* ------------------------------------------------------------------------
\* Properties of upload_local_file (checked under UploadSpec)
\* ------------------------------------------------------------------------

CallsAt(op) == {i \in 1..Len(calls) : calls[i].op = op}

\* The create call was answered with an object id.
Created == \E i \in CallsAt("file_new") : calls[i].ok

\* The part calls the platform accepted.
PartsSent == {i \in CallsAt("file_upload_part") : calls[i].ok}

\* What the platform holds for the object: the payloads of the accepted
\* parts, put together in the order of their part index.
RECURSIVE ContentFrom(_)
ContentFrom(k) ==
    IF \E i \in PartsSent : calls[i].index = k
    THEN BCat(calls[CHOOSE i \in PartsSent : calls[i].index = k].data,
              ContentFrom(k + 1))
    ELSE <<>>
TransmittedContent == ContentFrom(1)

\* C1: when upload_local_file returns Ok, the payloads of the parts it
\* transmitted, concatenated in part-index order, are the bytes of the source.
C1_RoundTrip ==
    u_result.kind = "Ok" => TransmittedContent = file

\* C2: the platform calls of a run are one file_new, then for k = 1..n the
\* pair (file_upload of part k, file_upload_part of part k), then one
\* file_close: nothing is transmitted before the create call was answered,
\* nothing follows the close or a failed call, and a successful run has
\* n >= 1 and ends with the close.
C2_CallOrder ==
    /\ \A i \in 1..Len(calls) :
        /\ (calls[i].op = "file_new") <=> (i = 1)
        /\ calls[i].op = "file_close" => i = Len(calls)
        /\ i < Len(calls) => calls[i].ok
        /\ calls[i].op = "file_upload" =>
               i % 2 = 0 /\ calls[i].index = i \div 2
        /\ calls[i].op = "file_upload_part" =>
               /\ i > 2
               /\ calls[i - 1].op = "file_upload"
               /\ calls[i].index = calls[i - 1].index
    /\ u_result.kind = "Ok" =>
        /\ Len(calls) >= 4
        /\ calls[Len(calls)].op = "file_close"
        /\ calls[Len(calls)].ok
        /\ \A i \in 2..(Len(calls) - 1) :
               calls[i].op = (IF i % 2 = 0 THEN "file_upload"
                              ELSE "file_upload_part")

\* A run that returned Ok after the calls file_new, file_upload,
\* file_upload_part, file_close.
C2_Witness ==
    /\ u_result.kind = "Ok"
    /\ Len(calls) = 4
    /\ calls[3].op = "file_upload_part"
    /\ calls[4].op = "file_close"

\* C3: on a zero-length source upload_local_file issues no platform call
\* and returns the error of the empty source.
C3_EmptySource ==
    (src_exists /\ BLen(file) = 0) =>
        /\ calls = <<>>
        /\ u_pc \in {"metadata", "done"}
        /\ u_pc = "done" => u_result = Err("empty")

\* The run on a zero-length source has returned.
C3_Witness ==
    /\ src_exists
    /\ file = <<>>
    /\ u_pc = "done"
    /\ u_result = Err("empty")

\* C4: once the remote object is created, upload_local_file does not return
\* without having issued the close call.
C4_CloseBeforeReturn ==
    (u_pc = "done" /\ Created) => CallsAt("file_close") # {}

\* C5: the k-th part request carries index k, and the loop's index is one
\* more than the number of parts transmitted successfully.
C5_PartIndices ==
    /\ \A i \in CallsAt("file_upload") :
           calls[i].index =
               Cardinality({j \in CallsAt("file_upload") : j <= i})
    /\ u_pc \in {"read", "file_upload", "file_upload_part", "file_close"} =>
           index = 1 + Cardinality(PartsSent)
    /\ u_pc \in {"file_upload", "file_upload_part"} =>
           upload_opts.index = index

\* Part 1 was transmitted and the index advanced to 2.
C5_Witness ==
    /\ PartsSent # {}
    /\ \A i \in PartsSent : calls[i].index = 1
    /\ u_pc = "read"
    /\ index = 2

\* C6: every part request declares a size between 1 byte and
\* MD5_READ_CHUNK_SIZE, and a read of zero bytes makes no part request.
C6_PartSize ==
    /\ \A i \in CallsAt("file_upload") :
           1 <= calls[i].size /\ calls[i].size <= MD5_READ_CHUNK_SIZE
    /\ u_pc \in {"file_upload", "file_upload_part"} =>
           /\ bytes_read >= 1
           /\ upload_opts.size = bytes_read
    /\ (u_pc = "file_close" /\ bytes_read = 0) =>
           Cardinality(CallsAt("file_upload")) = Cardinality(PartsSent)

\* A part of the full chunk size was requested, and the read of zero bytes
\* after it led to the close without another request.
C6_Witness ==
    /\ u_pc = "file_close"
    /\ bytes_read = 0
    /\ \E i \in CallsAt("file_upload") : calls[i].size = MD5_READ_CHUNK_SIZE
    /\ Cardinality(CallsAt("file_upload")) = 1

\* The number of bytes the accepted parts before call i carried.
RECURSIVE BytesBefore(_)
BytesBefore(i) ==
    IF i <= 1 THEN 0
    ELSE BytesBefore(i - 1)
         + (IF (i - 1) \in PartsSent THEN BLen(calls[i - 1].data) ELSE 0)

\* C7: the size and digest declared in a part's request are the length and
\* the digest of the bytes transmitted for that part, and these bytes are
\* the part's own bytes of the source.
C7_DigestOfPart ==
    \A i \in CallsAt("file_upload_part") :
        /\ calls[i - 1].op = "file_upload"
        /\ calls[i - 1].size = BLen(calls[i].data)
        /\ calls[i - 1].md5 = Md5(calls[i].data)
        /\ calls[i].data =
               BTake(BDrop(file, BytesBefore(i)),
                     calls[i - 1].size)

\* A part of a source longer than one chunk was transmitted: its digest is
\* not the digest of the whole source.
C7_Witness ==
    /\ BLen(file) > MD5_READ_CHUNK_SIZE
    /\ \E i \in PartsSent :
        /\ calls[i - 1].md5 = Md5(calls[i].data)
        /\ calls[i - 1].md5 # Md5(file)

\* ------------------------------------------------------------------------
\* Properties of the paginated searches (checked under SearchSpec)
\* ------------------------------------------------------------------------

\* The result lists of the pages received, in the order received.
PageResults == [i \in 1..Len(responses) |-> responses[i].results]

\* C8: when every page request succeeds the search returns the
\* concatenation of the pages' result lists in the order received.
C8_Concatenation ==
    s_result.kind = "Ok" => s_result.value = Flatten(PageResults)

\* A search over the pages [C], [A, B] returned [C, A, B].
C8_Witness ==
    /\ remote = << <<"C">>, <<"A", "B">> >>
    /\ s_result = SOk(<<"C", "A", "B">>)

\* C9: one request per page; the search goes on while the last page carried
\* a cursor, also when its result list was empty, and stops at the first
\* page without one: it returns after as many requests as the platform has
\* pages up to that one.
C9_OneRequestPerPage ==
    /\ Len(requests) = Len(responses)
    /\ \A i \in 1..Len(responses) :
        /\ i < Len(responses) =>
               responses[i].outcome = "ok" /\ responses[i].next.some
        /\ (responses[i].outcome = "ok" /\ responses[i].next.some) =>
               (i < Len(responses) \/ s_pc = "loop")
    /\ s_result.kind = "Ok" =>
        /\ responses[Len(responses)].outcome = "ok"
        /\ ~responses[Len(responses)].next.some
        /\ Len(requests) = Len(remote)

\* The pages [A, B], [C], (empty, no cursor): [A, B, C] after 3 requests.
C9_Witness ==
    /\ remote = << <<"A", "B">>, <<"C">>, <<>> >>
    /\ s_result = SOk(<<"A", "B", "C">>)
    /\ Len(requests) = 3

\* C10: a page request that does not succeed is the last one, and the
\* search returns the error alone, with none of the accumulated results.
C10_AllOrNothing ==
    \A i \in 1..Len(responses) :
        responses[i].outcome # "ok" =>
            /\ i = Len(responses)
            /\ Len(requests) = i
            /\ s_pc = "done"
            /\ s_result.kind = "Err"
            /\ s_result.error = responses[i].outcome
            /\ s_result.value = <<>>

\* A request failed after results had been accumulated from earlier pages.
C10_Witness ==
    /\ Len(responses) >= 2
    /\ apps # <<>>
    /\ responses[Len(responses)].outcome # "ok"
    /\ s_result.kind = "Err"

\* C11: a search run twice with the same criteria value against the same
\* remote state returns the same result sequence both times.
C11_SameResultTwice ==
    (s_run = 2 /\ s_result.kind = "Ok") => s_result = first_result

\* ------------------------------------------------------------------------
\* Properties of the path functions (checked under PathSpec)
\* ------------------------------------------------------------------------

\* s is tag followed by 24 letters or digits and nothing else.
IsIdentifier(s, tag) ==
    /\ Len(s) = Len(tag) + 24
    /\ SubSeq(s, 1, Len(tag)) = tag
    /\ \A i \in (Len(tag) + 1)..Len(s) : s[i] \in Alnum

\* s begins with a container identifier.
BeginsWithContainer(s) ==
    /\ Len(s) >= Len(Project1)
    /\ IsIdentifier(SubSeq(s, 1, Len(Project1)), ProjectTag)

\* s without the container identifier it begins with, if it begins with one.
Remainder(s) ==
    IF BeginsWithContainer(s) THEN SubSeq(s, Len(Project1) + 1, Len(s))
    ELSE s

\* s without one leading ':', if it has one.
WithoutColon(s) == IF s # <<>> /\ s[1] = ":" THEN Tail(s) ELSE s

\* The path part of an input: what follows the optional container
\* identifier and one optional ':'.
PathPart(s) == WithoutColon(Remainder(s))

HasLineFeed(s) == \E i \in 1..Len(s) : s[i] = "\n"

\* base and s with one '/' between them, and no double slash.
Joined(base, s) ==
    IF base[Len(base)] = "/" THEN base \o s ELSE base \o <<"/">> \o s

Resolved == p_fn = "resolve_path"

\* C12: resolve_path returns the default container for every input that
\* does not begin with a container identifier, and the identifier of the
\* input when it begins with one, whatever the default container and the
\* working path are.
C12_Container ==
    Resolved =>
        p_out.project_id = IF BeginsWithContainer(p_input)
                           THEN SubSeq(p_input, 1, Len(Project1))
                           ELSE p_c

C12_Witness ==
    /\ Resolved
    /\ p_input = Project1 \o <<":", "/", "x">>
    /\ p_c = Project2
    /\ p_w = <<"/", "w", "/", "w">>
    /\ p_out.project_id = Project1
    /\ p_out.path = <<"/", "x">>

\* C13: when the path part of the input (after an optional container
\* identifier and one optional ':') is a bare identifier file-<24
\* alphanumerics>, resolve_path returns that identifier as the path, not
\* joined with the working path.
C13_BareIdentifier ==
    (Resolved /\ IsIdentifier(PathPart(p_input), FileTag)) =>
        p_out.path = PathPart(p_input)

\* C14 as stated: an input that starts with '/' is returned unchanged, and
\* every other input that is not a bare identifier is returned joined to
\* the working path.
C14_JoinOfInput ==
    Resolved =>
        /\ StartsWithSlash(p_input) => p_out.path = p_input
        /\ (~StartsWithSlash(p_input) /\ ~IsIdentifier(p_input, FileTag)) =>
               p_out.path = Joined(p_w, p_input)

\* The inputs the amended C14 is about: no line feed, and a container
\* identifier at the start is followed by ':'.
C14_Covered ==
    /\ ~HasLineFeed(p_input)
    /\ BeginsWithContainer(p_input) =>
           (Remainder(p_input) # <<>> /\ Remainder(p_input)[1] = ":")

\* C14, amended: with raw the input after a leading container identifier
\* and its ':' and after one further leading ':', a raw that starts with
\* '/' is returned unchanged, and a non-empty raw that neither starts with
\* '/' nor is a bare identifier is returned joined to the working path.
C14_JoinOfRawPath ==
    (Resolved /\ C14_Covered) =>
        LET raw == IF BeginsWithContainer(p_input)
                   THEN WithoutColon(Tail(Remainder(p_input)))
                   ELSE WithoutColon(p_input)
        IN  /\ StartsWithSlash(raw) => p_out.path = raw
            /\ (raw # <<>> /\ ~StartsWithSlash(raw)
                    /\ ~IsIdentifier(raw, FileTag)) =>
                   p_out.path = Joined(p_w, raw)

C14_Witness ==
    /\ Resolved
    /\ p_input = <<":", "x", "/", "x">>
    /\ p_w = <<"/", "w", "/", "w">>
    /\ p_out.path = <<"/", "w", "/", "w", "/", "x", "/", "x">>

\* C15: resolve_path maps the empty input and the input ":" to the working
\* path itself, with the default container.
C15_EmptyInput ==
    (Resolved /\ p_input \in {<<>>, <<":">>}) =>
        /\ p_out.path = p_w
        /\ p_out.project_id = p_c

C15_Witness ==
    /\ Resolved
    /\ p_input = <<":">>
    /\ p_w = <<"/", "w", "/", "w">>
    /\ p_out.path = <<"/", "w", "/", "w">>
    /\ p_out.project_id = p_c

\* C16: the path resolve_path returns is never empty: it starts with '/'
\* or it is a bare identifier.
C16_PathNeverEmpty ==
    Resolved =>
        /\ p_out.path # <<>>
        /\ \/ p_out.path[1] = "/"
           \/ IsIdentifier(p_out.path, FileTag)

C16_Witness ==
    /\ Resolved
    /\ p_input = <<"x">>
    /\ p_out.path = p_w \o <<"/", "x">>

\* C17: for an input that is a container identifier followed by nothing or
\* by one ':', parse_project_path returns the path "/" and resolve_path
\* returns the working path; both return the identifier of the input.
C17_ParsersDiffer ==
    (BeginsWithContainer(p_input) /\ Remainder(p_input) \in {<<>>, <<":">>})
    =>  /\ p_fn = "parse_project_path" =>
               /\ p_out.path = <<"/">>
               /\ p_out.project_id = SubSeq(p_input, 1, Len(Project1))
        /\ Resolved =>
               /\ p_out.path = p_w
               /\ p_out.project_id = SubSeq(p_input, 1, Len(Project1))

C17_Witness ==
    /\ p_fn = "parse_project_path"
    /\ p_input = Project1 \o <<":">>
    /\ p_c = Project2
    /\ p_w = <<"/", "w", "/", "w">>
    /\ p_out.path = <<"/">>
    /\ ResolvePath(p_c, p_w, p_input).path = p_w

\* C18: is_file_or_path returns what resolve_path returns for the same
\* environment and input, as a File when the path is a bare identifier and
\* as a Path otherwise, and it makes no platform call.
C18_SameParse ==
    p_fn = "is_file_or_path" =>
        LET r == ResolvePath(p_c, p_w, p_input)
        IN  /\ p_out.project_id = r.project_id
            /\ p_out.path = r.path
            /\ p_out.kind = IF IsIdentifier(r.path, FileTag) THEN "File"
                            ELSE "Path"
            /\ calls = <<>>
            /\ requests = <<>>

C18_Witness ==
    /\ p_fn = "is_file_or_path"
    /\ p_input = <<"x">>
    /\ p_w = <<"/", "w", "/", "w">>
    /\ p_out = PathResult("Path", p_c, <<"/", "w", "/", "w", "/", "x">>)

\* ------------------------------------------------------------------------
\* Properties of api::download_file (checked under DownloadSpec)
\* ------------------------------------------------------------------------

\* C19: while a download with a progress bar streams the body, after each
\* chunk written the bar shows (bytes written to the sink so far, content
\* length), whatever the sizes of the chunks are.
C19_Progress ==
    (d_pc = "loop" /\ ~d_quiet) =>
        /\ progress.some
        /\ progress.position = Len(d_sink)
        /\ progress.length = d_response.content_length.v

C19_Witness ==
    /\ d_pc = "loop"
    /\ ~d_quiet
    /\ d_chunks = 2
    /\ Len(d_sink) = 3
    /\ progress.position = 3
    /\ progress.length = 3

\* C20: when the response carries no content length, download_file returns
\* an error before it reads a chunk, and the sink receives no byte.
C20_NoContentLength ==
    ~d_response.content_length.some =>
        /\ d_pc \in {"start", "sent", "done"}
        /\ d_pc = "done" => d_result.kind = "Err"
        /\ d_chunks = 0
        /\ d_sink = <<>>

C20_Witness ==
    /\ ~d_response.content_length.some
    /\ d_response.status = "OK"
    /\ d_response.body # <<>>
    /\ d_pc = "done"
    /\ d_result = DErr("Failed to get content length")
    /\ d_sink = <<>>

\* The bytes the stream has delivered so far.
Delivered == SubSeq(d_response.body, 1, Len(d_response.body) - Len(d_rest))

IsPrefix(s, b) == Len(s) <= Len(b) /\ s = SubSeq(b, 1, Len(s))

\* C21: when the transport fails after K of the N bytes of the body were
\* delivered, download_file returns an error and the sink holds the first
\* K bytes of the body; at every moment the sink holds a prefix of the
\* body.
C21_SinkIsPrefix ==
    /\ IsPrefix(d_sink, d_response.body)
    /\ d_result = DErr("Error while downloading file") =>
           /\ d_pc = "done"
           /\ d_sink = Delivered

C21_Witness ==
    /\ d_result = DErr("Error while downloading file")
    /\ Len(d_response.body) = 3
    /\ d_chunks = 2
    /\ Len(d_sink) = 2
    /\ d_sink = SubSeq(d_response.body, 1, 2)

\* ------------------------------------------------------------------------
\* Properties of the download commands (checked under CmdSpec)
\* ------------------------------------------------------------------------

\* The transfers that have failed so far.
Failed == {i \in 1..Len(c_results) : c_results[i] \in TransferErrors}

\* C22: when the transfer of a requested file failed, the command has
\* written the error to standard error and the process exits with code 1;
\* it exits with code 0 only when no transfer failed.
C22_ExitCode ==
    c_pc = "exited" =>
        /\ \A i \in Failed : \E k \in 1..Len(c_stderr) :
               c_stderr[k] = c_results[i]
        /\ Failed # {} => c_exit = 1
        /\ c_exit = 0 => Failed = {}

\* ------------------------------------------------------------------------
\* Properties of normalize (checked under NormalizeSpec)
\* ------------------------------------------------------------------------

\* val with every whitespace character replaced by '_' and every other
\* character outside [A-Za-z0-9_.-] removed.
RECURSIVE Cleaned(_)
Cleaned(val) ==
    IF val = <<>> THEN <<>>
    ELSE IF Head(val) \in Whitespace THEN <<"_">> \o Cleaned(Tail(val))
    ELSE IF Head(val) \in GoodChars THEN <<Head(val)>> \o Cleaned(Tail(val))
    ELSE Cleaned(Tail(val))

\* C23: normalize fails exactly when the value does not begin with an
\* ASCII letter; otherwise it returns the value with every whitespace
\* character replaced by '_' and the other characters outside
\* [A-Za-z0-9_.-] removed, a result normalize leaves unchanged.
C23_Normalize ==
    n_pc = "done" =>
        IF n_val # <<>> /\ n_val[1] \in Letters
        THEN /\ n_out = NOk(Cleaned(n_val))
             /\ \A i \in 1..Len(n_out.value) : n_out.value[i] \in GoodChars
             /\ Normalized(n_out.value) = n_out
        ELSE n_out = NErr("must begin with a character")

\* C24: the first request of a search carries the options as the caller
\* gave them; every later request carries as starting the cursor of the
\* page before it and the other fields unchanged; no cursor is used for two
\* requests and none is skipped.
C24_CursorChain ==
    /\ requests # <<>> => requests[1] = given_options
    /\ \A i \in 2..Len(requests) :
        /\ responses[i - 1].next.some
        /\ requests[i].starting = responses[i - 1].next
        /\ requests[i].criteria = given_options.criteria
    /\ \A i, j \in 1..Len(requests) :
        i # j => requests[i].starting # requests[j].starting

C24_Witness ==
    /\ Len(requests) = 3
    /\ requests[1] = [criteria |-> "applet", starting |-> None]
    /\ requests[2] = [criteria |-> "applet", starting |-> responses[1].next]
    /\ requests[3] = [criteria |-> "applet", starting |-> responses[2].next]
    /\ responses[2].next = Some(3)

\* C25: the platform has a last page (one without a cursor) or answers a
\* request with a failure; then every search returns, and it has made as
\* many requests as there are pages up to the one that ended it.
C25_Terminates ==
    /\ <>(s_pc = "done")
    /\ [](s_pc = "done" =>
            /\ s_result.kind \in {"Ok", "Err"}
            /\ Len(requests) = Len(responses)
            /\ Len(requests) = PageOf(requests[Len(requests)].starting)
            /\ \/ responses[Len(responses)].outcome # "ok"
               \/ ~responses[Len(responses)].next.some)

C25_Witness ==
    /\ s_pc = "done"
    /\ Len(remote) = 3
    /\ s_result.kind = "Ok"
    /\ Len(requests) = 3
    /\ PageOf(requests[3].starting) = 3

\* C26: when the input begins with a container identifier that is not
\* followed by ':', resolve_path keeps what follows the identifier as the
\* raw path and resolves it like any other path: no character after the
\* identifier is discarded.
C26_KeepsRemainder ==
    (/\ Resolved
     /\ BeginsWithContainer(p_input)
     /\ Remainder(p_input) # <<>>
     /\ Remainder(p_input)[1] # ":"
     /\ ~HasLineFeed(p_input))
    =>  LET raw == Remainder(p_input)
        IN  /\ p_out.project_id = SubSeq(p_input, 1, Len(Project1))
            /\ p_out.path = IF IsIdentifier(raw, FileTag) \/ raw[1] = "/"
                            THEN raw
                            ELSE Joined(p_w, raw)

\* ------------------------------------------------------------------------
\* Properties of the options of file_new (checked under NewOptsSpec)
\* ------------------------------------------------------------------------

\* C27: the object is created with the basename of the local source as its
\* name and the destination path as its folder; the last component of the
\* destination folder is not used as the name.
C27_NameIsLocalBasename ==
    o_pc = "done" =>
        /\ new_opts.name = o_filename[Len(o_filename)]
        /\ new_opts.folder = o_destination.path

\* ------------------------------------------------------------------------
\* Properties of rmdir (checked under RmdirSpec)
\* ------------------------------------------------------------------------

\* The answer reports completed = true or has no completed.
Finished(res) ==
    res.outcome = "ok" /\ (~res.completed.some \/ res.completed.v)

\* C28: for each path rmdir sends the same removeFolder request (recurse,
\* partial) again until an answer reports completed = true or has no
\* completed, and only then takes the next path; an error answer is the
\* last one and rmdir returns the error without a request for the paths
\* left; with a platform that finishes every folder, rmdir returns.
C28_Rmdir ==
    /\ <>(r_pc = "done")
    /\ [](\A j \in 1..Len(r_responses) :
            /\ r_requests[j].options =
                   [folder |-> r_paths[r_requests[j].path],
                    recurse |-> TRUE, partial |-> TRUE]
            /\ j = 1 => r_requests[j].path = 1
            /\ j < Len(r_requests) =>
                   /\ r_responses[j].outcome = "ok"
                   /\ r_requests[j + 1].path =
                          IF Finished(r_responses[j])
                          THEN r_requests[j].path + 1
                          ELSE r_requests[j].path
            /\ r_responses[j].outcome = "error" =>
                   /\ j = Len(r_requests)
                   /\ r_pc = "done"
                   /\ r_result = "Err")
    /\ [](r_result = "Ok" =>
            /\ r_requests[Len(r_requests)].path = Len(r_paths)
            /\ Finished(r_responses[Len(r_responses)]))

C28_Witness ==
    /\ r_result = "Ok"
    /\ r_paths = <<"/a", "/b">>
    /\ Len(r_requests) = 3
    /\ r_requests[1] = r_requests[2]
    /\ r_responses[1].completed = Some(FALSE)
    /\ ~r_responses[2].completed.some
    /\ r_requests[3].path = 2

\* ------------------------------------------------------------------------
\* Properties of download_file of lib.rs (checked under FetchSpec)
\* ------------------------------------------------------------------------

\* C29: without the force flag and with an output other than "-", when the
\* local target exists download_file returns 'Use force to overwrite'
\* before it requests a download descriptor and before it opens the sink:
\* the local file stays as it was and nothing is fetched.
C29_NoOverwrite ==
    (~f_force /\ f_output # "-" /\ f_existed) =>
        /\ f_local = "old"
        /\ \A i \in 1..Len(f_calls) : f_calls[i].op = "describe_file"
        /\ (f_pc = "done" /\ f_calls # <<>> /\ f_calls[Len(f_calls)].ok) =>
               f_result = "Use force to overwrite"

C29_Witness ==
    /\ ~f_force
    /\ f_output = "name"
    /\ f_existed
    /\ f_pc = "done"
    /\ f_result = "Use force to overwrite"
    /\ f_local = "old"
    /\ f_calls = <<Made("describe_file", TRUE)>>

\* ------------------------------------------------------------------------
\* Properties of rm_project (checked under RmProjectSpec)
\* ------------------------------------------------------------------------

\* C30: a destroy call is issued for an argument only when the search
\* found exactly one project and the force flag is set or the user
\* confirmed; no destroy call is issued for an argument with no match or
\* several, or whose confirmation was declined or failed.
C30_DestroyOnlyConfirmed ==
    /\ \A i \in 1..Len(m_destroys) :
        LET k == m_destroys[i]
        IN  /\ k \in 1..m_index
            /\ m_matches[k] = 1
            /\ m_found[k] = 1
            /\ m_force \/ m_confirm[k] = "Ok(true)"
            /\ \A j \in 1..Len(m_destroys) : m_destroys[j] = k => j = i
    /\ \A k \in 1..Len(m_found) :
        (m_matches[k] # 1 \/ m_confirm[k] \in {"Ok(false)", "Err"}) =>
            \A i \in 1..Len(m_destroys) : m_destroys[i] # k

C30_Witness ==
    /\ ~m_force
    /\ m_matches = <<1, 1>>
    /\ m_confirm = <<"Err", "Ok(true)">>
    /\ m_destroys = <<2>>
    /\ m_result = "Ok"

====
